---- MODULE Spec2Model ----
(***************************************************************************)
(* stegegg: LSB steganography in the channel bytes of an RGB image.  The   *)
(* order in which the hiding spots are visited is a shuffle driven by a    *)
(* xoshiro256++ generator seeded from SHA-256 of the user key.             *)
(*                                                                         *)
(* The model follows src/src/main.rs.  A u64 is kept as four 16-bit limbs  *)
(* <<l0, l1, l2, l3>>, least significant first, so that every operation    *)
(* keeps its 64-bit width.  usize is taken to be 64 bits wide.             *)
(* The arithmetic operator + on u64 (line 15) either wraps or panics on    *)
(* overflow, depending on whether the build has overflow checks (the       *)
(* default of the dev profile): overflow_checks holds the build's choice.  *)
(* width * height * channels (u32) stays far below 2^32 for the images of  *)
(* the model.  Decoding and encoding of the image file and SHA-256 are     *)
(* library code: the image is the decoded pixel grid, and Seed gives the   *)
(* digests of the keys of the model.                                       *)
(*                                                                         *)
(* A behaviour is a sequence of runs of the program on one image: any      *)
(* number of runs with -x, and runs that hide a message until one of them  *)
(* has saved its output, which later runs read.                            *)
(***************************************************************************)
EXTENDS Integers, Sequences, FiniteSets, TLC

\* ---------------------------------------------------------------- bounds
MaxWidth  == 3
MaxHeight == 4
MaxMsgLen == 1

\* ------------------------------------------------------ program constants
channels == 3
HeaderBytes == 3

\* a u64 is four limbs of 16 bits
B16 == 2^16

\* Payload byte values the model draws messages from.
MsgBytes == {104, 1}
\* Payload lengths around the 24-bit limit of the header (0xFFFFFF, 0x1000000).
HugeLens == {16777215, 16777216}
\* Keys the user may give with -k (line 175).
Keys == {"alpha", "beta"}

VARIABLES
    overflow_checks, \* build: TRUE when u64 + panics on overflow
    width, height,   \* image.width(), image.height()
    image,           \* rgb_img: <<x, y>> -> <<r, g, b>>
    image_pre,       \* the image as it was when the current run started
    pc,              \* position of the program
    mode,            \* "none" | "hide" | "extract": what the current run does
    key,             \* user_key of the current run
    msg,             \* main's msg (hide) / extract_data's msg (extract)
    msg_len,         \* msg.len() in main (hide) / msg_len in extract_data
    data,            \* main's data: header ++ message
    prng_state,      \* PrngState(u64, u64, u64, u64)
    indices,         \* the vector of hiding-spot indices being shuffled
    i,               \* loop counter of shuffle
    iidx,            \* next position of indices to use
    header,          \* extract_data's header: [u8; 3]
    result,          \* how the current run ended
    draws,           \* number of xoshiro256pp calls begun in the current run
    written,         \* positions of indices whose channel byte was assigned
    hidden           \* what the last successful hide run embedded

vars == <<overflow_checks, width, height, image, image_pre, pc, mode, key, msg,
          msg_len, data, prng_state, indices, i, iidx, header, result, draws,
          written, hidden>>

\* ------------------------------------------------------ bitwise operations
RECURSIVE AndBits(_, _, _)
AndBits(a, b, n) ==
    IF n = 0 THEN 0
    ELSE ((a % 2) * (b % 2)) + 2 * AndBits(a \div 2, b \div 2, n - 1)

RECURSIVE OrBits(_, _, _)
OrBits(a, b, n) ==
    IF n = 0 THEN 0
    ELSE (IF (a % 2) + (b % 2) > 0 THEN 1 ELSE 0)
         + 2 * OrBits(a \div 2, b \div 2, n - 1)

RECURSIVE XorBits(_, _, _)
XorBits(a, b, n) ==
    IF n = 0 THEN 0
    ELSE (((a % 2) + (b % 2)) % 2) + 2 * XorBits(a \div 2, b \div 2, n - 1)

\* ------------------------------------------------------------ u64 (limbs)
\* bitwise operations on 4-bit digits, tabulated
XorTable == [a \in 0..15 |-> [b \in 0..15 |-> XorBits(a, b, 4)]]
OrTable  == [a \in 0..15 |-> [b \in 0..15 |-> OrBits(a, b, 4)]]

\* a 16-bit limb combined digit by digit
Limb(T, a, b) ==
      T[a % 16][b % 16]
    + 16 * T[(a \div 16) % 16][(b \div 16) % 16]
    + 256 * T[(a \div 256) % 16][(b \div 256) % 16]
    + 4096 * T[a \div 4096][b \div 4096]

Xor64(a, b) == [k \in 1..4 |-> Limb(XorTable, a[k], b[k])]
Or64(a, b)  == [k \in 1..4 |-> Limb(OrTable, a[k], b[k])]

\* x << k for 0 < k < 64, bits shifted out are lost
Shl64(x, k) ==
    LET q == k \div 16
        r == k % 16
        Lo(n) == IF n - q >= 1 THEN (x[n - q] % 2^(16 - r)) * 2^r ELSE 0
        Hi(n) == IF n - q - 1 >= 1 THEN x[n - q - 1] \div 2^(16 - r) ELSE 0
    IN  [n \in 1..4 |-> Lo(n) + Hi(n)]

\* x >> k for 0 < k < 64
Shr64(x, k) ==
    LET q == k \div 16
        r == k % 16
        Lo(n) == IF n + q <= 4 THEN x[n + q] \div 2^r ELSE 0
        Hi(n) == IF n + q + 1 <= 4 THEN (x[n + q + 1] % 2^r) * 2^(16 - r) ELSE 0
    IN  [n \in 1..4 |-> Lo(n) + Hi(n)]

\* a + b on u64: the sum modulo 2^64 and whether it overflowed
Add64(a, b) ==
    LET s1 == a[1] + b[1]
        s2 == a[2] + b[2] + (s1 \div B16)
        s3 == a[3] + b[3] + (s2 \div B16)
        s4 == a[4] + b[4] + (s3 \div B16)
    IN  [sum      |-> <<s1 % B16, s2 % B16, s3 % B16, s4 % B16>>,
         overflow |-> s4 \div B16 > 0]

\* (x as usize) % n
ModU64(x, n) ==
    LET r4 == x[4] % n
        r3 == (r4 * B16 + x[3]) % n
        r2 == (r3 * B16 + x[2]) % n
    IN  (r2 * B16 + x[1]) % n

rotl(x, k) == Or64(Shl64(x, k), Shr64(x, 64 - k))

\* One call of xoshiro256pp on state s = <<s.0, s.1, s.2, s.3>>:
\* result and new state as the wrapping arithmetic gives them, and whether
\* one of the two additions of line 15 overflowed.
xoshiro256pp(s) ==
    LET a1  == Add64(s[1], s[4])
        a2  == Add64(rotl(a1.sum, 23), s[1])
        t   == Shl64(s[2], 17)
        s2a == Xor64(s[3], s[1])
        s3a == Xor64(s[4], s[2])
        s1a == Xor64(s[2], s2a)
        s0a == Xor64(s[1], s3a)
        s2b == Xor64(s2a, t)
        s3b == rotl(s3a, 45)
    IN  [result   |-> a2.sum,
         overflow |-> a1.overflow \/ a2.overflow,
         state    |-> <<s0a, s1a, s2b, s3b>>]

\* ------------------------------------------------------------- key seeding
\* SHA-256 of the key, split into four big-endian u64 (lines 222-232):
\*   SHA-256("alpha") = 8ed3f6ad685b959e ad7022518e1af76c d816f8e8ec7ccdda 1ed4018e8f2223f8
\*   SHA-256("beta")  = f44e64e75f3948e9 f73f8dfa94721c4c e8cbb4f265c4790c 702b2d41cfbf2753
Seed(k) ==
    CASE k = "alpha" ->
           << <<38302, 26715, 63149, 36563>>, <<63340, 36378, 8785, 44400>>,
              <<52698, 60540, 63720, 55318>>, <<9208, 36642, 398, 7892>> >>
      [] k = "beta" ->
           << <<18665, 24377, 25831, 62542>>, <<7244, 38002, 36346, 63295>>,
              <<30988, 26052, 46322, 59595>>, <<10067, 53183, 11585, 28715>> >>

ZeroState == << <<0, 0, 0, 0>>, <<0, 0, 0, 0>>, <<0, 0, 0, 0>>, <<0, 0, 0, 0>> >>

\* -------------------------------------------------------------- the image
hidding_spots == width * height * channels

Pixels(w, h) == (0..(w - 1)) \X (0..(h - 1))

\* spot index -> <<x, y, color_offset>> (lines 56-59, 111-114)
SpotAddr(spot_idx) ==
    LET color_offset == spot_idx % channels
        pixel_idx    == spot_idx \div channels
        x            == pixel_idx % width
        y            == pixel_idx \div width
    IN  <<x, y, color_offset>>

\* image.get_pixel(x, y)[color_offset] of the spot
ChannelByte(img, spot_idx) ==
    LET a == SpotAddr(spot_idx) IN img[<<a[1], a[2]>>][a[3] + 1]

\* the spot index a channel of a pixel has
SpotOf(w, p, c) == (p[2] * w + p[1]) * channels + (c - 1)

\* Cover images: every channel byte 255, every channel byte 164, or 164 with
\* one channel byte 165.
CoverImages(w, h) ==
    LET Uniform(b) == [p \in Pixels(w, h) |-> <<b, b, b>>]
        OneOdd(s)  == [p \in Pixels(w, h) |->
                          [c \in 1..3 |-> IF SpotOf(w, p, c) = s THEN 165 ELSE 164]]
    IN  {Uniform(255), Uniform(164)}
          \cup {OneOdd(s) : s \in 0..(w * h * channels - 1)}

\* ------------------------------------------------------------- run results
Res(kind, bytes, needed, available) ==
    [kind |-> kind, bytes |-> bytes, needed |-> needed, available |-> available]

NoResult == Res("none", <<>>, 0, 0)
\* Ok(()) of hide_data
HideOk == Res("Ok", <<>>, 0, 0)
\* Ok(msg) of extract_data
ExtractOk(m) == Res("Ok", m, 0, 0)
\* Err("Input message is too large. Can't hide {} bits into {} hidding spots!")
CapacityError(needed, available) == Res("CapacityError", <<>>, needed, available)
\* Err("Message length from extracted header is to large ...")
OversizedHeader == Res("OversizedHeader", <<>>, 0, 0)
\* panic: attempt to add with overflow
PanicOverflow == Res("PanicOverflow", <<>>, 0, 0)
\* panic: index out of bounds
PanicIndex == Res("PanicIndex", <<>>, 0, 0)

NotHidden == [set |-> FALSE, key |-> "", msg |-> <<>>]

\* (0..n).collect()
Iota(n) == [k \in 1..n |-> k - 1]

\* ------------------------------------------------------------------- Init
\* The messages main may read: every byte sequence up to MaxMsgLen, and
\* messages of a huge length, whose bytes are not materialised (hide_data
\* rejects them by their length before it reads a byte).
Messages ==
    {[len |-> Len(s), bytes |-> s] :
         s \in UNION {[1..n -> MsgBytes] : n \in 0..MaxMsgLen}}
      \cup {[len |-> n, bytes |-> <<>>] : n \in HugeLens}

Init ==
    /\ overflow_checks \in BOOLEAN
    /\ width \in 0..MaxWidth
    /\ height \in 0..MaxHeight
    /\ image \in CoverImages(width, height)
    /\ image_pre = image
    /\ pc = "idle"
    /\ mode = "none"
    /\ key = ""
    /\ msg = <<>>
    /\ msg_len = 0
    /\ data = <<>>
    /\ prng_state = ZeroState
    /\ indices = <<>>
    /\ i = 0
    /\ iidx = 0
    /\ header = <<0, 0, 0>>
    /\ result = NoResult
    /\ draws = 0
    /\ written = {}
    /\ hidden = NotHidden

\* ------------------------------------------------------------ frame codec
\* the 3-byte little-endian header main builds (lines 265-268)
FrameHeader(len) ==
    << AndBits(len, 255, 8),
       AndBits(len \div 2^8, 255, 8),
       AndBits(len \div 2^16, 255, 8) >>

\* data.len() after data.append(&mut msg) (line 269)
DataLen(len) == HeaderBytes + len

\* the capacity test with the bytes not converted to bits
TooLarge_Bytes(data_len, spots) == data_len > spots

\* the capacity test of hide_data (line 96)
TooLarge(data_len, spots) == data_len * 8 > spots

\* the length test of extract_data (line 68)
HeaderTooLarge(len, spots) == len * 8 + 3 > spots

\* header[0] | header[1] << 8 | header[2] << 16 (line 67)
HeaderLen(h) == OrBits(OrBits(h[1], h[2] * 2^8, 24), h[3] * 2^16, 24)

\* (b >> n) & 1
get_bit(b, n) == AndBits(b \div 2^n, 1, 8)

\* the channel byte assigned the bit, without the mask
SetLsb_NoMask(p, bit) == bit

\* pixel[color_offset] & 0xfe | get_bit(*b, n) (line 117)
SetLsb(p, bit) == OrBits(AndBits(p, 254, 8), bit, 8)

\* the bits of a byte filled from the most significant end
OrLsbInto_MsbFirst(b, channel, n) == OrBits(b, AndBits(channel, 1, 8) * 2^(7 - n), 8)

\* *b |= (channel & 1) << n (lines 61, 82)
OrLsbInto(b, channel, n) == OrBits(b, AndBits(channel, 1, 8) * 2^n, 8)

\* a copy in place of a swap
swap_Copy(v, a, b) == [v EXCEPT ![a + 1] = v[b + 1]]

\* v.swap(a, b), positions counted from 0
swap(v, a, b) == [v EXCEPT ![a + 1] = v[b + 1], ![b + 1] = v[a + 1]]

\* ---------------------------------------------------------------- actions
\* what every run sets up before it branches on -x
StartRun(k, m) ==
    /\ pc = "idle"
    /\ key' = k
    /\ prng_state' = Seed(k)
    /\ image_pre' = image
    /\ i' = 0
    /\ iidx' = 0
    /\ header' = <<0, 0, 0>>
    /\ draws' = 0
    /\ written' = {}
    /\ mode' = m

\* the capacity error found only after the first spot was written
hide_data_reject_Late(len) ==
    /\ result' = CapacityError(DataLen(len) * 8, hidding_spots)
    /\ pc' = "idle"
    /\ indices' = <<>>
    /\ image' = IF hidding_spots > 0
                THEN [image EXCEPT ![<<0, 0>>][1] = SetLsb(@, 1)]
                ELSE image

\* hide_data returns Err before the shuffle (lines 96-98); main prints it and
\* returns without saving
hide_data_reject(len) ==
    /\ result' = CapacityError(DataLen(len) * 8, hidding_spots)
    /\ pc' = "idle"
    /\ indices' = <<>>
    /\ image' = image

\* main without -x (lines 222-232, 250-271) up to the shuffle call of hide_data
MainHide(k, m) ==
    /\ ~hidden.set
    /\ StartRun(k, "hide")
    /\ msg' = m.bytes
    /\ msg_len' = m.len
    /\ data' = FrameHeader(m.len) \o m.bytes
    /\ IF TooLarge(DataLen(m.len), hidding_spots)
       THEN hide_data_reject(m.len)
       ELSE /\ indices' = Iota(hidding_spots)
            /\ pc' = "shuffle"
            /\ result' = NoResult
            /\ image' = image
    /\ UNCHANGED <<overflow_checks, width, height, hidden>>

\* main with -x (lines 222-236) and extract_data up to its shuffle call
MainExtract(k) ==
    /\ StartRun(k, "extract")
    /\ msg' = <<>>
    /\ msg_len' = 0
    /\ data' = <<>>
    /\ indices' = Iota(hidding_spots)
    /\ pc' = "shuffle"
    /\ result' = NoResult
    /\ UNCHANGED <<overflow_checks, width, height, image, hidden>>

\* one iteration of the loop of shuffle (lines 28-31), d being what the call
\* of xoshiro256pp gives
ShuffleWith(d) ==
    /\ pc = "shuffle"
    /\ i < Len(indices)
    /\ draws' = draws + 1
    /\ IF overflow_checks /\ d.overflow
       THEN /\ result' = PanicOverflow
            /\ pc' = "idle"
            /\ UNCHANGED <<prng_state, indices, i>>
       ELSE /\ prng_state' = d.state
            /\ indices' = swap(indices, i, ModU64(d.result, Len(indices)))
            /\ i' = i + 1
            /\ UNCHANGED <<pc, result>>
    /\ UNCHANGED <<overflow_checks, width, height, image, image_pre, mode, key,
                   msg, msg_len, data, iidx, header, written, hidden>>

ShuffleStep == ShuffleWith(xoshiro256pp(prng_state))

\* shuffle returns to hide_data or extract_data
ShuffleReturn ==
    /\ pc = "shuffle"
    /\ i = Len(indices)
    /\ pc' = IF mode = "hide" THEN "hide_bits" ELSE "recover_header"
    /\ UNCHANGED <<overflow_checks, width, height, image, image_pre, mode, key,
                   msg, msg_len, data, prng_state, indices, i, iidx, header,
                   result, draws, written, hidden>>

\* one iteration of the inner loop of hide_data (lines 109-119)
HideBit ==
    /\ pc = "hide_bits"
    /\ iidx < 8 * Len(data)
    /\ IF iidx >= Len(indices)
       THEN /\ result' = PanicIndex
            /\ pc' = "idle"
            /\ UNCHANGED <<image, iidx, written>>
       ELSE LET spot_idx == indices[iidx + 1]
                a        == SpotAddr(spot_idx)
                b        == data[(iidx \div 8) + 1]
                n        == iidx % 8
            IN  /\ image' = [image EXCEPT ![<<a[1], a[2]>>][a[3] + 1] =
                                              SetLsb(@, get_bit(b, n))]
                /\ written' = written \cup {spot_idx}
                /\ iidx' = iidx + 1
                /\ UNCHANGED <<pc, result>>
    /\ UNCHANGED <<overflow_checks, width, height, image_pre, mode, key, msg,
                   msg_len, data, prng_state, indices, i, header, draws, hidden>>

\* hide_data returns Ok(()) (line 121); main saves the image (line 277)
HideDataReturn ==
    /\ pc = "hide_bits"
    /\ iidx = 8 * Len(data)
    /\ result' = HideOk
    /\ pc' = "idle"
    /\ hidden' = [set |-> TRUE, key |-> key, msg |-> msg]
    /\ UNCHANGED <<overflow_checks, width, height, image, image_pre, mode, key,
                   msg, msg_len, data, prng_state, indices, i, iidx, header,
                   draws, written>>

\* one iteration of the inner loop that recovers the header (lines 54-63)
ExtractHeaderBit ==
    /\ pc = "recover_header"
    /\ iidx < 8 * HeaderBytes
    /\ IF iidx >= Len(indices)
       THEN /\ result' = PanicIndex
            /\ pc' = "idle"
            /\ UNCHANGED <<header, iidx>>
       ELSE /\ header' = [header EXCEPT ![(iidx \div 8) + 1] =
                  OrLsbInto(@, ChannelByte(image, indices[iidx + 1]), iidx % 8)]
            /\ iidx' = iidx + 1
            /\ UNCHANGED <<pc, result>>
    /\ UNCHANGED <<overflow_checks, width, height, image, image_pre, mode, key,
                   msg, msg_len, data, prng_state, indices, i, draws, written,
                   hidden>>

\* the recovered length is computed and tested (lines 67-73)
ExtractCheckLen ==
    /\ pc = "recover_header"
    /\ iidx = 8 * HeaderBytes
    /\ msg_len' = HeaderLen(header)
    /\ IF HeaderTooLarge(HeaderLen(header), hidding_spots)
       THEN /\ result' = OversizedHeader
            /\ pc' = "idle"
            /\ UNCHANGED msg
       ELSE /\ msg' = [k \in 1..HeaderLen(header) |-> 0]
            /\ pc' = "extract_msg"
            /\ UNCHANGED result
    /\ UNCHANGED <<overflow_checks, width, height, image, image_pre, mode, key,
                   data, prng_state, indices, i, iidx, header, draws, written,
                   hidden>>

\* one iteration of the inner loop that extracts the message (lines 75-84)
ExtractMsgBit ==
    /\ pc = "extract_msg"
    /\ iidx - 8 * HeaderBytes < 8 * Len(msg)
    /\ IF iidx >= Len(indices)
       THEN /\ result' = PanicIndex
            /\ pc' = "idle"
            /\ UNCHANGED <<msg, iidx>>
       ELSE LET pos == iidx - 8 * HeaderBytes IN
            /\ msg' = [msg EXCEPT ![(pos \div 8) + 1] =
                  OrLsbInto(@, ChannelByte(image, indices[iidx + 1]), pos % 8)]
            /\ iidx' = iidx + 1
            /\ UNCHANGED <<pc, result>>
    /\ UNCHANGED <<overflow_checks, width, height, image, image_pre, mode, key,
                   msg_len, data, prng_state, indices, i, header, draws, written,
                   hidden>>

\* extract_data returns Ok(msg) (line 86)
ExtractReturn ==
    /\ pc = "extract_msg"
    /\ iidx - 8 * HeaderBytes = 8 * Len(msg)
    /\ result' = ExtractOk(msg)
    /\ pc' = "idle"
    /\ UNCHANGED <<overflow_checks, width, height, image, image_pre, mode, key,
                   msg, msg_len, data, prng_state, indices, i, iidx, header,
                   draws, written, hidden>>

Next ==
    \/ \E k \in Keys, m \in Messages : MainHide(k, m)
    \/ \E k \in Keys : MainExtract(k)
    \/ ShuffleStep
    \/ ShuffleReturn
    \/ HideBit
    \/ HideDataReturn
    \/ ExtractHeaderBit
    \/ ExtractCheckLen
    \/ ExtractMsgBit
    \/ ExtractReturn

Spec == Init /\ [][Next]_vars

\* Images that can hold at least the 24 bits of a header.
InitHeaderFits == Init /\ hidding_spots >= 8 * HeaderBytes

SpecHeaderFits == InitHeaderFits /\ [][Next]_vars

\* ------------------------------------------------- shuffle on its own
\* shuffle(v, prng_state) called on [0, ..., n-1] with the generator replaced
\* by an arbitrary source of u64 values.
MaxShuffleLen == 5

AnyDraws ==
    {<<a, 0, 0, 0>> : a \in 0..(MaxShuffleLen - 1)}
      \cup {<<65535, 65535, 65535, 65535>>, <<0, 0, 0, 32768>>}

InitShuffle ==
    /\ overflow_checks = FALSE
    /\ width = 0
    /\ height = 0
    /\ image = <<>>
    /\ image_pre = <<>>
    /\ pc = "shuffle"
    /\ mode = "extract"
    /\ key = ""
    /\ msg = <<>>
    /\ msg_len = 0
    /\ data = <<>>
    /\ prng_state = ZeroState
    /\ indices \in {Iota(n) : n \in 1..MaxShuffleLen}
    /\ i = 0
    /\ iidx = 0
    /\ header = <<0, 0, 0>>
    /\ result = NoResult
    /\ draws = 0
    /\ written = {}
    /\ hidden = NotHidden

ShuffleAny ==
    \E r \in AnyDraws :
        ShuffleWith([result |-> r, overflow |-> FALSE, state |-> prng_state])

NextShuffle == ShuffleAny \/ ShuffleReturn

SpecShuffle == InitShuffle /\ [][NextShuffle]_vars

\* =================================================================
\* Properties
\* =================================================================
HideEnded    == pc = "idle" /\ mode = "hide"
ExtractEnded == pc = "idle" /\ mode = "extract"
Panicked     == result.kind \in {"PanicOverflow", "PanicIndex"}

\* the least-significant bit of the channel byte of a spot
Lsb(img, spot_idx) == ChannelByte(img, spot_idx) % 2

\* bit n (0 = least significant) of byte k (from 0) of a byte sequence
BitOf(bytes, pos) == (bytes[(pos \div 8) + 1] \div 2^(pos % 8)) % 2

\* the frame of a payload: 3-byte little-endian length, then the payload
FrameOf(payload) ==
    << Len(payload) % 256, (Len(payload) \div 256) % 256,
       (Len(payload) \div 65536) % 256 >> \o payload

\* v holds every value of 0..Len(v)-1 exactly once
IsPermutation(v) ==
    \A x \in 0..(Len(v) - 1) : Cardinality({k \in 1..Len(v) : v[k] = x}) = 1

\* the run drew from the generator of the key that embedded the payload
SameSeed == hidden.set /\ Seed(key) = Seed(hidden.key)
WrongSeed == hidden.set /\ Seed(key) # Seed(hidden.key)

\* C1: round trip.  A payload of at most 0xFFFFFF bytes is embedded whenever
\* the image has at least 24 + 8 * len hiding spots, and extracting from the
\* resulting image with the same key returns exactly that payload.
C1_RoundTrip ==
    /\ (HideEnded /\ msg_len <= 16777215 /\ hidding_spots >= 24 + 8 * msg_len)
          => result = HideOk
    /\ (ExtractEnded /\ SameSeed) => result = ExtractOk(hidden.msg)

\* The round trip in a build whose u64 additions wrap.
RoundTripWhenWrapping == ~overflow_checks => C1_RoundTrip

\* C2: extract validates the recovered length.  It never reads an entry of
\* the permutation at a position >= N, and once the 24 header bits are read
\* it returns the OversizedHeader error when 24 + 8 * len > N and exactly len
\* bytes otherwise.
C2_ExtractValidatesLength ==
    ExtractEnded =>
        /\ result.kind # "PanicIndex"
        /\ iidx >= 8 * HeaderBytes =>
              IF 24 + 8 * HeaderLen(header) > hidding_spots
              THEN result = OversizedHeader
              ELSE result.kind = "Ok" /\ Len(result.bytes) = HeaderLen(header)

\* C3: frame length validation.  A payload longer than 0xFFFFFF bytes is
\* refused with a length-overflow error, and the header of every frame that
\* is built encodes the true length of the payload.
C3_FrameLengthValidated ==
    mode = "hide" =>
        /\ msg_len > 16777215 => result.kind = "LengthOverflow"
        /\ result.kind # "LengthOverflow" =>
              data[1] + 256 * data[2] + 65536 * data[3] = msg_len

\* C4: embed fails with CapacityError if and only if 8 * len(frame) > N, and
\* then reports needed = 8 * len(frame) and available = N; a 1x1 image
\* rejects every frame.
C4_CapacityErrorIff ==
    mode = "hide" =>
        /\ result.kind = "CapacityError" <=> 8 * (3 + msg_len) > hidding_spots
        /\ result.kind = "CapacityError" =>
              /\ result.needed = 8 * (3 + msg_len)
              /\ result.available = width * height * 3
        /\ (width = 1 /\ height = 1) => result.kind = "CapacityError"

C4_Witness ==
    /\ HideEnded
    /\ width = 1 /\ height = 1
    /\ result = CapacityError(24, 3)

\* C5: when embed returns CapacityError the image is byte for byte what it
\* was before the call: nothing was written, no permutation was built and
\* the generator was not drawn from.
C5_NoMutationOnCapacityError ==
    (mode = "hide" /\ result.kind = "CapacityError") =>
        /\ image = image_pre
        /\ written = {}
        /\ indices = <<>>
        /\ draws = 0

C5_Witness ==
    /\ HideEnded
    /\ result.kind = "CapacityError"
    /\ hidding_spots >= 24
    /\ msg_len = 1

\* C6: channel isolation.  After a successful embed of a frame of L bytes
\* every channel byte has its upper 7 bits unchanged, the channel bytes of
\* the permutation entries at positions >= 8 * L are unchanged, the entry at
\* position 8 * k + n carries bit n of frame byte k in its least-significant
\* bit, and exactly 8 * L distinct channel bytes were written.
C6_ChannelIsolation ==
    (HideEnded /\ result = HideOk) =>
        LET L == Len(data) IN
        /\ \A s \in 0..(hidding_spots - 1) :
              ChannelByte(image, s) \div 2 = ChannelByte(image_pre, s) \div 2
        /\ \A k \in (8 * L)..(hidding_spots - 1) :
              ChannelByte(image, indices[k + 1])
                  = ChannelByte(image_pre, indices[k + 1])
        /\ \A k \in 0..(8 * L - 1) :
              Lsb(image, indices[k + 1]) = BitOf(data, k)
        /\ written = {indices[k + 1] : k \in 0..(8 * L - 1)}
        /\ Cardinality(written) = 8 * L

C6_Witness ==
    /\ HideEnded
    /\ result = HideOk
    /\ Len(data) = 4
    /\ image # image_pre
    /\ hidding_spots > 8 * Len(data)

\* C7: permutation validity.  At every point of the shuffle, and after it,
\* the array holds every value of 0..N-1 exactly once; each iteration
\* consumes one draw, so the finished shuffle has consumed exactly N.
C7_PermutationValid ==
    /\ pc \in {"shuffle", "hide_bits", "recover_header", "extract_msg"} =>
          IsPermutation(indices)
    /\ pc = "shuffle" => draws = i /\ i <= Len(indices)
    /\ pc \in {"hide_bits", "recover_header", "extract_msg"} =>
          draws = Len(indices)

C7_Witness ==
    /\ pc = "recover_header"
    /\ Len(indices) = MaxShuffleLen
    /\ draws = MaxShuffleLen
    /\ indices # Iota(MaxShuffleLen)

\* C8 as stated: extracting with a key that seeds another generator state
\* returns the OversizedHeader error or bytes that differ from the embedded
\* payload, never the payload itself.
C8_WrongKeyNeverReturnsPayload ==
    (ExtractEnded /\ WrongSeed /\ ~Panicked) =>
        \/ result = OversizedHeader
        \/ result.kind = "Ok" /\ result.bytes # hidden.msg

\* C8 as amended: whatever bytes Q an extraction with another key returns
\* (the embedded payload included), the image holds the frame of Q in the
\* least-significant bits of the first 24 + 8 * len(Q) entries of that key's
\* permutation, and these entries exist.
C8_WrongKeyReturnsWhatItReads ==
    (ExtractEnded /\ WrongSeed /\ result.kind = "Ok") =>
        LET Q == result.bytes IN
        /\ 24 + 8 * Len(Q) <= hidding_spots
        /\ \A k \in 0..(24 + 8 * Len(Q) - 1) :
              Lsb(image, indices[k + 1]) = BitOf(FrameOf(Q), k)

C8_Witness ==
    /\ ExtractEnded
    /\ WrongSeed
    /\ result.kind = "Ok"
    /\ Len(result.bytes) = 1
    /\ result.bytes # hidden.msg

\* C9: on an image without hiding spots embed and extract both end with an
\* error value, before any draw; extraction never changes the image.
C9_ZeroSizedImage ==
    /\ (hidding_spots = 0 /\ pc = "idle" /\ mode # "none") =>
          /\ result.kind \in {"CapacityError", "PermutationError"}
          /\ draws = 0
    /\ mode = "extract" => image = image_pre

\* C10: every call of the generator returns the wrapped result and installs
\* the wrapped state; no call ends in an error.
C10_PrgStepWraps ==
    [][draws' = draws + 1 =>
          /\ result'.kind # "PanicOverflow"
          /\ prng_state' = xoshiro256pp(prng_state).state
          /\ indices' = swap(indices, i,
                             ModU64(xoshiro256pp(prng_state).result, Len(indices)))]_vars

====
